---- MODULE Spec2Model ----
(***************************************************************************)
(* kaldi-serve, src/decoder.hpp: the DecoderQueue (a pool of Decoder       *)
(* instances behind a mutex and a condition variable) and the whole-buffer *)
(* decode entry points of Decoder.                                         *)
(*                                                                         *)
(* Spec       the pool: constructor, worker threads that acquire, decode   *)
(*            and release, destructor.                                     *)
(* FairSpec   the pool under the scheduling assumptions of the liveness    *)
(*            claims.                                                      *)
(* DecodeSpec one call of decode_wav_audio / decode_raw_wav_audio.         *)
(* ExtractSpec calls of the free functions calculate_confidence and        *)
(*            find_alternatives.                                           *)
(* ServeSpec  the pool with decode calls that raise or end the process.    *)
(* SessionsSpec decode calls one after another on one Decoder.             *)
(* StartupSpec the pool built from a model directory with bad files.       *)
(***************************************************************************)
EXTENDS Integers, Sequences, FiniteSets, TLC

\* ------------------------------------------------------------------ bounds

\* worker threads that call acquire() / release()
NumThreads == 3
\* largest pool size n handed to the DecoderQueue constructor
MaxPool == 2
\* most chunks one utterance of a pool worker is cut into
MaxChunks == 1

\* longest buffer, in samples, a decode call is given
MaxDim == 5

\* most paths a lattice holds
MaxPaths == 2
\* largest n_best a call asks for
MaxNBest == 2
\* most words of a path
MaxWords == 2
\* most decode calls that end on one Decoder before the last one observed
MaxUtterances == 2

Threads == 1 .. NumThreads
\* the null Decoder pointer / the unlocked mutex
None == 0

\* ------------------------------------------------------------------- state

VARIABLES
    \* DecoderQueue -------------------------------------------------------
    phase,      \* lifetime of the DecoderQueue object
    n,          \* constructor argument n
    built,      \* loop counter i of the constructor
    factory,    \* decoder_factory_ is set
    queue_,     \* std::queue<Decoder *> queue_ (front first)
    mutex_,     \* owner of mutex_, or None
    cond_,      \* threads suspended in cond_.wait
    destroyed,  \* per Decoder: how often it was deleted
    \* request handler threads ---------------------------------------------
    pc,         \* position of each thread
    held,       \* the Decoder a thread got from acquire() and has not pushed back
    chunks,     \* chunks the thread's running utterance still has to ingest
    \* history, read by the properties only -------------------------------
    fullAtCall, \* all n decoders were checked out when the thread called acquire()
    relSince,   \* a release() pushed a decoder since the thread called acquire()
    waited,     \* the thread was suspended on cond_ during its current acquire()
    wokenBy,    \* the releasing thread whose notify_one() unblocked the thread
    \* one call of decode_wav_audio / decode_raw_wav_audio -----------------
    dpc,          \* position of the call
    entry,        \* "wav": decode_wav_audio, "raw": decode_raw_wav_audio
    chunk_size,   \* argument chunk_size, in seconds, as a fraction <<num, den>>
    data_bytes,   \* argument data_bytes (raw entry point)
    stream_bad,   \* wav_stream.bad() after the read (raw entry point)
    inited,       \* feature pipeline, silence weighting and decoder are built
    Dim,          \* data.Dim()
    samp_freq,    \* samp_freq
    chunk_length, \* chunk_length
    samp_offset,  \* samp_offset
    slices,       \* the (samp_offset, num_samp) of every wave_part ingested
    finals,       \* calls of decode_stream_final
    err,          \* the call that raised, or "none"
    word_syms_,   \* the Decoder has a symbol table (word_syms_ is not null)
    n_best,       \* argument n_best
    results0,     \* the caller's results vector when the call was made
    results,      \* the caller's results vector
    bytes_read,   \* bytes wav_stream.read delivered (raw entry point)
    clat,         \* the CompactLattice clat of decode_stream_final
    log,          \* messages logged by KALDI_LOG / KALDI_WARN
    conf,         \* the last direct call of calculate_confidence and its value
    before,       \* how the earlier decode calls on this Decoder ended, oldest first
    \* the model directory ------------------------------------------------
    missing       \* the files of model_dir that are missing or malformed

\* the history variables
hist == <<fullAtCall, relSince, waited, wokenBy>>

poolVars == <<phase, n, built, factory, queue_, mutex_, cond_, destroyed,
              pc, held, chunks, hist>>

\* what a call is given besides the audio: the Decoder it runs on and the
\* arguments n_best and results
callVars == <<word_syms_, n_best, results0>>

\* what hypothesis extraction and the raw reader leave behind
outVars == <<results, bytes_read, clat, log, conf>>

decVars == <<dpc, entry, chunk_size, data_bytes, stream_bad, inited, Dim,
             samp_freq, chunk_length, samp_offset, slices, finals, err,
             callVars, outVars, before>>

vars == <<poolVars, decVars, missing>>

\* ----------------------------------------------------------------- helpers

Range(s) == {s[i] : i \in 1 .. Len(s)}

\* threads that hold a Decoder (returned by acquire(), not yet pushed back)
Holders == {t \in Threads : held[t] # None}

\* number of Decoders checked out
CheckedOut == Cardinality(Holders)

\* positions inside pop_() (acquire) and inside push_() (release)
InPop == {"pop_lock", "pop_test", "pop_wait", "pop_woken"}
InPush == {"push_lock", "push_push", "push_notify"}

\* --------------------------------------------------------- DecoderFactory

\* mutant: the factory caches one Decoder and hands out the same pointer
produceSame(i) == 1

\* DecoderFactory::produce: new Decoder(...), a pointer distinct from all
\* earlier ones; the i-th Decoder is i.
produce(i) == i + 1

\* -------------------------------------------------- DecoderQueue lifetime

\* decoder_factory_ = new DecoderFactory(...)
CtorFactory ==
    /\ phase = "new"
    /\ phase' = "ctor"
    /\ factory' = TRUE
    /\ built' = 0
    /\ UNCHANGED <<n, queue_, mutex_, cond_, destroyed, pc, held,
                   chunks, hist, decVars, missing>>

\* for (size_t i = 0; i < n; i++) queue_.push(decoder_factory_->produce());
CtorProduce ==
    /\ phase = "ctor"
    /\ built < n
    /\ queue_' = Append(queue_, produce(built))
    /\ built' = built + 1
    /\ UNCHANGED <<phase, n, factory, mutex_, cond_, destroyed, pc,
                   held, chunks, hist, decVars, missing>>

\* mutant: the constructor returns before the loop has run to n
CtorReturnEarly ==
    /\ phase = "ctor"
    /\ phase' = "live"
    /\ UNCHANGED <<n, built, factory, queue_, mutex_, cond_, destroyed,
                   pc, held, chunks, hist, decVars, missing>>

\* the loop ends and the constructor returns: the object exists from here on
CtorReturn ==
    /\ phase = "ctor"
    /\ ~(built < n)
    /\ phase' = "live"
    /\ UNCHANGED <<n, built, factory, queue_, mutex_, cond_, destroyed,
                   pc, held, chunks, hist, decVars, missing>>

\* ~DecoderQueue starts. It takes no lock: the owner may only destroy the
\* queue when no thread is inside acquire() or release().
DtorBegin ==
    /\ phase = "live"
    /\ \A t \in Threads : pc[t] \notin InPop \cup InPush
    /\ phase' = "dtor"
    /\ UNCHANGED <<n, built, factory, queue_, mutex_, cond_, destroyed,
                   pc, held, chunks, hist, decVars, missing>>

\* mutant: the destructor empties the queue without deleting the Decoders
DtorStepNoDelete ==
    /\ phase = "dtor"
    /\ queue_ # <<>>
    /\ queue_' = Tail(queue_)
    /\ UNCHANGED <<phase, n, built, factory, mutex_, cond_, destroyed, pc,
                   held, chunks, hist, decVars, missing>>

\* while (!queue_.empty()) { decoder = front(); pop(); delete decoder; }
DtorStep ==
    /\ phase = "dtor"
    /\ queue_ # <<>>
    /\ destroyed' = [destroyed EXCEPT ![Head(queue_)] = @ + 1]
    /\ queue_' = Tail(queue_)
    /\ UNCHANGED <<phase, n, built, factory, mutex_, cond_, pc, held,
                   chunks, hist, decVars, missing>>

DtorReturn ==
    /\ phase = "dtor"
    /\ queue_ = <<>>
    /\ phase' = "destroyed"
    /\ UNCHANGED <<n, built, factory, queue_, mutex_, cond_, destroyed,
                   pc, held, chunks, hist, decVars, missing>>

\* ------------------------------------------------- construction that fails

\* the files of model_dir: hclg_filepath is read by the DecoderFactory
\* constructor, the other four by every Decoder constructor
GraphFile == "HCLG.fst"
DecoderFiles == {"final.mdl", "words.txt", "mfcc.conf", "ivector_extractor.conf"}

\* the files construction has still to read
ToBeRead ==
    IF phase = "new" THEN {GraphFile} \cup DecoderFiles
    ELSE IF phase = "ctor" /\ built < n THEN DecoderFiles
    ELSE {}

\* a file that is still to be read is found missing or malformed (a file
\* that goes bad after its last read changes nothing)
FileBad(f) ==
    /\ f \in ToBeRead \ missing
    /\ missing' = missing \cup {f}
    /\ UNCHANGED <<poolVars, decVars>>

\* DecoderFactory::DecoderFactory(...) noexcept: ReadFstKaldiGeneric raises
\* in the member initializer list of a noexcept constructor: std::terminate
CtorFactoryFails ==
    /\ phase = "new"
    /\ GraphFile \in missing
    /\ phase' = "aborted"
    /\ UNCHANGED <<n, built, factory, queue_, mutex_, cond_, destroyed, pc,
                   held, chunks, hist, decVars, missing>>

\* mutant: the Decoder that cannot be built is left out and the loop goes on
CtorProduceSkips ==
    /\ phase = "ctor"
    /\ built < n
    /\ missing \cap DecoderFiles # {}
    /\ built' = built + 1
    /\ UNCHANGED <<phase, n, factory, queue_, mutex_, cond_, destroyed, pc,
                   held, chunks, hist, decVars, missing>>

\* Decoder::Decoder(...) noexcept, called by produce() noexcept: reading the
\* model, the symbol table or the feature configuration raises inside the
\* try block, the handler raises again (KALDI_ERR << e.what()), and the
\* exception meets the noexcept of the constructor: std::terminate
CtorProduceFails ==
    /\ phase = "ctor"
    /\ built < n
    /\ missing \cap DecoderFiles # {}
    /\ phase' = "aborted"
    /\ UNCHANGED <<n, built, factory, queue_, mutex_, cond_, destroyed, pc,
                   held, chunks, hist, decVars, missing>>

\* --------------------------------------------------------- acquire / pop_

\* a thread calls acquire(). The object can only be used once its
\* constructor has returned and before its destructor runs.
acquire(t) ==
    /\ phase = "live"
    /\ pc[t] = "idle"
    /\ pc' = [pc EXCEPT ![t] = "pop_lock"]
    /\ fullAtCall' = [fullAtCall EXCEPT ![t] = (CheckedOut = n)]
    /\ relSince' = [relSince EXCEPT ![t] = FALSE]
    /\ waited' = [waited EXCEPT ![t] = FALSE]
    /\ UNCHANGED <<phase, n, built, factory, queue_, mutex_, cond_,
                   destroyed, held, chunks, wokenBy, decVars, missing>>

\* std::unique_lock<std::mutex> mlock(mutex_), and the re-lock a woken
\* cond_.wait does before it returns
PopLock(t) ==
    /\ phase = "live"
    /\ pc[t] \in {"pop_lock", "pop_woken"}
    /\ mutex_ = None
    /\ mutex_' = t
    /\ pc' = [pc EXCEPT ![t] = "pop_test"]
    /\ wokenBy' = [wokenBy EXCEPT ![t] = None]
    /\ UNCHANGED <<phase, n, built, factory, queue_, cond_, destroyed,
                   held, chunks, fullAtCall, relSince, waited,
                   decVars, missing>>

\* mutant: the wait unlocks first and suspends in a second step, so a
\* notify_one() can fall between the two
PopWaitGap(t) ==
    /\ phase = "live"
    /\ \/ /\ pc[t] = "pop_test"
          /\ mutex_ = t
          /\ queue_ = <<>>
          /\ mutex_' = None
          /\ pc' = [pc EXCEPT ![t] = "pop_gap"]
          /\ UNCHANGED <<cond_, waited>>
       \/ /\ pc[t] = "pop_gap"
          /\ cond_' = cond_ \cup {t}
          /\ pc' = [pc EXCEPT ![t] = "pop_wait"]
          /\ waited' = [waited EXCEPT ![t] = TRUE]
          /\ UNCHANGED mutex_
    /\ UNCHANGED <<phase, n, built, factory, queue_, destroyed, held,
                   chunks, fullAtCall, relSince, wokenBy, decVars, missing>>

\* while (queue_.empty()) cond_.wait(mlock): unlock and suspend, atomically
PopWait(t) ==
    /\ phase = "live"
    /\ pc[t] = "pop_test"
    /\ mutex_ = t
    /\ queue_ = <<>>
    /\ mutex_' = None
    /\ cond_' = cond_ \cup {t}
    /\ pc' = [pc EXCEPT ![t] = "pop_wait"]
    /\ waited' = [waited EXCEPT ![t] = TRUE]
    /\ UNCHANGED <<phase, n, built, factory, queue_, destroyed, held,
                   chunks, fullAtCall, relSince, wokenBy, decVars, missing>>

\* mutant: the front item is returned but not popped
PopTakeNoPop(t) ==
    /\ phase = "live"
    /\ pc[t] = "pop_test"
    /\ mutex_ = t
    /\ queue_ # <<>>
    /\ held' = [held EXCEPT ![t] = Head(queue_)]
    /\ mutex_' = None
    /\ pc' = [pc EXCEPT ![t] = "got"]
    /\ UNCHANGED <<phase, n, built, factory, queue_, cond_, destroyed,
                   chunks, hist, decVars, missing>>

\* item = queue_.front(); queue_.pop(); return item; (mlock unlocks on return)
PopTake(t) ==
    /\ phase = "live"
    /\ pc[t] = "pop_test"
    /\ mutex_ = t
    /\ queue_ # <<>>
    /\ held' = [held EXCEPT ![t] = Head(queue_)]
    /\ queue_' = Tail(queue_)
    /\ mutex_' = None
    /\ pc' = [pc EXCEPT ![t] = "got"]
    /\ UNCHANGED <<phase, n, built, factory, cond_, destroyed, chunks,
                   hist, decVars, missing>>

\* std::condition_variable::wait may return without a notification
SpuriousWake(t) ==
    /\ phase = "live"
    /\ pc[t] = "pop_wait"
    /\ t \in cond_
    /\ cond_' = cond_ \ {t}
    /\ pc' = [pc EXCEPT ![t] = "pop_woken"]
    /\ UNCHANGED <<phase, n, built, factory, queue_, mutex_, destroyed,
                   held, chunks, hist, decVars, missing>>

\* ------------------------------------------------------------ the utterance

\* the handler starts a whole-buffer decode on the Decoder it holds; the
\* buffer makes k chunks
DecodeBegin(t, k) ==
    /\ phase = "live"
    /\ pc[t] = "got"
    /\ held[t] # None
    /\ pc' = [pc EXCEPT ![t] = "decoding"]
    /\ chunks' = [chunks EXCEPT ![t] = k]
    /\ fullAtCall' = [fullAtCall EXCEPT ![t] = FALSE]
    /\ relSince' = [relSince EXCEPT ![t] = FALSE]
    /\ waited' = [waited EXCEPT ![t] = FALSE]
    /\ UNCHANGED <<phase, n, built, factory, queue_, mutex_, cond_,
                   destroyed, held, wokenBy, decVars, missing>>

\* while (samp_offset < data.Dim()) { _decode_wave(...); samp_offset += num_samp; }
Ingest(t) ==
    /\ phase = "live"
    /\ pc[t] = "decoding"
    /\ chunks[t] > 0
    /\ chunks' = [chunks EXCEPT ![t] = @ - 1]
    /\ UNCHANGED <<phase, n, built, factory, queue_, mutex_, cond_,
                   destroyed, pc, held, hist, decVars, missing>>

\* decode_stream_final(...), the decode call returns and the handler calls
\* release(decoder)
release(t) ==
    /\ phase = "live"
    /\ pc[t] = "decoding"
    /\ chunks[t] = 0
    /\ pc' = [pc EXCEPT ![t] = "push_lock"]
    /\ UNCHANGED <<phase, n, built, factory, queue_, mutex_, cond_,
                   destroyed, held, chunks, hist, decVars, missing>>

\* ------------------------------------------------------- failing utterances

\* the decode call of thread t raises: KALDI_ERR in read_raw_wav_stream or
\* WaveData::Read (framing), in _decode_wave (ingest), in InputFinished() or
\* FinalizeDecoding() ahead of the try block (finalize). The exception
\* leaves the call; the Decoder and the queue are not touched, the handler
\* still holds the Decoder.
DecodeRaises(t) ==
    /\ phase = "live"
    /\ pc[t] = "decoding"
    /\ pc' = [pc EXCEPT ![t] = "raised"]
    /\ UNCHANGED <<phase, n, built, factory, queue_, mutex_, cond_,
                   destroyed, held, chunks, hist, decVars, missing>>

\* the handler has caught the exception and calls release(decoder)
ReleaseAfterRaise(t) ==
    /\ phase = "live"
    /\ pc[t] = "raised"
    /\ pc' = [pc EXCEPT ![t] = "push_lock"]
    /\ chunks' = [chunks EXCEPT ![t] = 0]
    /\ UNCHANGED <<phase, n, built, factory, queue_, mutex_, cond_,
                   destroyed, held, hist, decVars, missing>>

\* the decode call of thread t ends the process: the range check of
\* SubVector(data, samp_offset, num_samp) fails on a chunk_length below zero
\* (KALDI_ASSERT calls abort), or an exception is raised inside
\* find_alternatives, which is noexcept (std::terminate). Every thread of
\* the process ends with it, and so does the DecoderQueue.
DecodeAborts(t) ==
    /\ phase = "live"
    /\ pc[t] = "decoding"
    /\ pc' = [u \in Threads |-> "dead"]
    /\ phase' = "aborted"
    /\ UNCHANGED <<n, built, factory, queue_, mutex_, cond_, destroyed,
                   held, chunks, hist, decVars, missing>>

\* --------------------------------------------------------- release / push_

\* std::unique_lock<std::mutex> mlock(mutex_)
PushLock(t) ==
    /\ phase = "live"
    /\ pc[t] = "push_lock"
    /\ mutex_ = None
    /\ mutex_' = t
    /\ pc' = [pc EXCEPT ![t] = "push_push"]
    /\ UNCHANGED <<phase, n, built, factory, queue_, cond_, destroyed,
                   held, chunks, hist, decVars, missing>>

\* mutant: the item is not pushed
PushPushLost(t) ==
    /\ phase = "live"
    /\ pc[t] = "push_push"
    /\ mutex_ = t
    /\ held' = [held EXCEPT ![t] = None]
    /\ mutex_' = None
    /\ pc' = [pc EXCEPT ![t] = "push_notify"]
    /\ relSince' = [u \in Threads |-> relSince[u] \/ pc[u] \in InPop]
    /\ UNCHANGED <<phase, n, built, factory, queue_, cond_, destroyed,
                   chunks, fullAtCall, waited, wokenBy, decVars, missing>>

\* queue_.push(item); mlock.unlock();
PushPush(t) ==
    /\ phase = "live"
    /\ pc[t] = "push_push"
    /\ mutex_ = t
    /\ queue_' = Append(queue_, held[t])
    /\ held' = [held EXCEPT ![t] = None]
    /\ mutex_' = None
    /\ pc' = [pc EXCEPT ![t] = "push_notify"]
    /\ relSince' = [u \in Threads |-> relSince[u] \/ pc[u] \in InPop]
    /\ UNCHANGED <<phase, n, built, factory, cond_, destroyed, chunks,
                   fullAtCall, waited, wokenBy, decVars, missing>>

\* the threads cond_.notify_one() unblocks: one of the suspended threads, if any
Notified == IF cond_ = {} THEN {{}} ELSE {{w} : w \in cond_}

\* mutant: release() returns without notifying
PushNotifyNone(t) ==
    /\ phase = "live"
    /\ pc[t] = "push_notify"
    /\ pc' = [pc EXCEPT ![t] = "idle"]
    /\ UNCHANGED <<phase, n, built, factory, queue_, mutex_, cond_,
                   destroyed, held, chunks, hist, decVars, missing>>

\* mutant: cond_.notify_all()
PushNotifyAll(t) ==
    /\ phase = "live"
    /\ pc[t] = "push_notify"
    /\ cond_' = {}
    /\ pc' = [u \in Threads |->
                IF u = t THEN "idle"
                ELSE IF u \in cond_ THEN "pop_woken" ELSE pc[u]]
    /\ wokenBy' = [u \in Threads |-> IF u \in cond_ THEN t ELSE wokenBy[u]]
    /\ UNCHANGED <<phase, n, built, factory, queue_, mutex_, destroyed,
                   held, chunks, fullAtCall, relSince, waited,
                   decVars, missing>>

\* cond_.notify_one(); and release() returns
PushNotify(t) ==
    /\ phase = "live"
    /\ pc[t] = "push_notify"
    /\ \E W \in Notified :
          /\ cond_' = cond_ \ W
          /\ pc' = [u \in Threads |->
                      IF u = t THEN "idle"
                      ELSE IF u \in W THEN "pop_woken" ELSE pc[u]]
          /\ wokenBy' = [u \in Threads |-> IF u \in W THEN t ELSE wokenBy[u]]
    /\ UNCHANGED <<phase, n, built, factory, queue_, mutex_, destroyed,
                   held, chunks, fullAtCall, relSince, waited,
                   decVars, missing>>

\* ------------------------------------------------------------ arithmetic

\* Numbers of calculate_confidence. The function computes in double; the
\* model computes the same expression in exact rationals and keeps the three
\* values of a double that are not numbers. Integers beyond 31 bits are
\* sequences of decimal limbs, least significant first, without a leading
\* zero limb; zero is the empty sequence.
Base == 10000

Limb(s, i) == IF i <= Len(s) THEN s[i] ELSE 0

RECURSIVE Trim(_)
Trim(s) == IF s # <<>> /\ s[Len(s)] = 0 THEN Trim(SubSeq(s, 1, Len(s) - 1)) ELSE s

RECURSIVE Carry(_, _)
Carry(s, c) ==
    IF s = <<>>
    THEN IF c = 0 THEN <<>> ELSE <<c % Base>> \o Carry(<<>>, c \div Base)
    ELSE <<(Head(s) + c) % Base>> \o Carry(Tail(s), (Head(s) + c) \div Base)

\* the natural number k
BigOf(k) == Trim(Carry(<<k>>, 0))

BigAdd(a, b) ==
    LET m == IF Len(a) < Len(b) THEN Len(b) ELSE Len(a)
    IN  Trim(Carry([i \in 1 .. m |-> Limb(a, i) + Limb(b, i)], 0))

\* a * k for one limb k
BigScale(a, k) == Trim(Carry([i \in 1 .. Len(a) |-> a[i] * k], 0))

RECURSIVE BigMul(_, _)
BigMul(a, b) ==
    IF b = <<>> THEN <<>>
    ELSE LET r == BigMul(a, Tail(b))
         IN  BigAdd(BigScale(a, Head(b)), IF r = <<>> THEN <<>> ELSE <<0>> \o r)

BigLess(a, b) ==
    IF Len(a) # Len(b) THEN Len(a) < Len(b)
    ELSE \E i \in 1 .. Len(a) :
            /\ a[i] < b[i]
            /\ \A j \in (i + 1) .. Len(a) : a[j] = b[j]

RECURSIVE Borrow(_, _, _)
Borrow(a, b, c) ==
    IF a = <<>> THEN <<>>
    ELSE LET v == Head(a) - Limb(b, 1) - c
         IN  <<IF v < 0 THEN v + Base ELSE v>>
                 \o Borrow(Tail(a), IF b = <<>> THEN <<>> ELSE Tail(b),
                           IF v < 0 THEN 1 ELSE 0)

\* a - b for a >= b
BigSub(a, b) == Trim(Borrow(a, b, 0))

\* a double that is a number, as a rational: sign, numerator and
\* denominator (not reduced)
Rat(neg, num, den) ==
    [kind |-> "num", neg |-> neg /\ num # <<>>, num |-> num, den |-> den]

\* the integer k, and the decimal k / 10^(4 * limbs)
RatOf(k) == Rat(k < 0, BigOf(IF k < 0 THEN -k ELSE k), BigOf(1))
Decimal(k, limbs) ==
    Rat(k < 0, BigOf(IF k < 0 THEN -k ELSE k),
        [i \in 1 .. (limbs + 1) |-> IF i = limbs + 1 THEN 1 ELSE 0])

RatNeg(a) == Rat(~a.neg, a.num, a.den)

RatMul(a, b) == Rat(a.neg # b.neg, BigMul(a.num, b.num), BigMul(a.den, b.den))

\* a / k for a positive integer k
RatDivInt(a, k) == Rat(a.neg, a.num, BigMul(a.den, BigOf(k)))

RatAdd(a, b) ==
    LET x == BigMul(a.num, b.den)
        y == BigMul(b.num, a.den)
        d == BigMul(a.den, b.den)
    IN  IF a.neg = b.neg THEN Rat(a.neg, BigAdd(x, y), d)
        ELSE IF BigLess(x, y) THEN Rat(b.neg, BigSub(y, x), d)
        ELSE Rat(a.neg, BigSub(x, y), d)

RatLess(a, b) ==
    LET x == BigMul(a.num, b.den)
        y == BigMul(b.num, a.den)
    IN  IF a.neg # b.neg THEN a.neg
        ELSE IF a.neg THEN BigLess(y, x) ELSE BigLess(x, y)

\* the values of a double that are not numbers
NaN == [kind |-> "nan", neg |-> FALSE, num |-> <<>>, den |-> <<>>]
PosInf == [kind |-> "inf", neg |-> FALSE, num |-> <<>>, den |-> <<>>]
NegInf == [kind |-> "inf", neg |-> TRUE, num |-> <<>>, den |-> <<>>]
IsFinite(x) == x.kind = "num"

\* -x
DNeg(x) ==
    IF x = NaN THEN NaN
    ELSE IF x = PosInf THEN NegInf
    ELSE IF x = NegInf THEN PosInf
    ELSE RatNeg(x)

\* x + y
DAdd(x, y) ==
    IF x = NaN \/ y = NaN THEN NaN
    ELSE IF ~IsFinite(x) THEN (IF IsFinite(y) \/ y = x THEN x ELSE NaN)
    ELSE IF ~IsFinite(y) THEN y
    ELSE RatAdd(x, y)

\* c * x for a finite constant c other than zero, and x / k for an integer
\* k > 0
DMul(c, x) ==
    IF IsFinite(x) THEN RatMul(c, x)
    ELSE IF c.neg THEN DNeg(x) ELSE x
DDivInt(x, k) == IF IsFinite(x) THEN RatDivInt(x, k) ELSE x

\* x < y of doubles: false whenever one of them is not a number
DLess(x, y) ==
    IF x = NaN \/ y = NaN THEN FALSE
    ELSE IF IsFinite(x) /\ IsFinite(y) THEN RatLess(x, y)
    ELSE IF x = y THEN FALSE
    ELSE x = NegInf \/ y = PosInf

\* x = y of doubles
DEq(x, y) ==
    IF x = NaN \/ y = NaN THEN FALSE
    ELSE IF IsFinite(x) /\ IsFinite(y) THEN ~RatLess(x, y) /\ ~RatLess(y, x)
    ELSE x = y

\* std::min(a, b) and std::max(a, b): (b < a) ? b : a and (a < b) ? b : a
StdMin(a, b) == IF DLess(b, a) THEN b ELSE a
StdMax(a, b) == IF DLess(a, b) THEN b ELSE a

\* -0.0001466488 * (2.388449 * lm_score + am_score) / (n_words + 1) + 0.956
\* for float scores (promoted to double: every float is a double)
RawConfidence(lm_score, am_score, n_words) ==
    DAdd(DDivInt(DMul(Decimal(-146648800, 3),
                      DAdd(DMul(Decimal(238844900, 2), lm_score),
                           am_score)),
                 n_words + 1),
         Decimal(9560, 1))

\* mutant: the lower clamp is missing
calculate_confidenceNoFloor(lm_score, am_score, n_words) ==
    StdMin(RatOf(1), RawConfidence(lm_score, am_score, n_words))

\* return std::max(0.0, std::min(1.0, ...));
calculate_confidence(lm_score, am_score, n_words) ==
    StdMax(RatOf(0), StdMin(RatOf(1), RawConfidence(lm_score, am_score, n_words)))

\* ---------------------------------------------------- hypothesis extraction

\* word ids of the lattices and what word_syms->Find(wid) gives for them
WordIds == 1 .. 2
Find(wid) == IF wid = 1 THEN "hello" ELSE "world"

\* the output label sequences of lattice paths: no word, one, two
WordSeqs == {<<>>, <<1>>, <<2, 1>>}

\* kaldi::LatticeWeight of a path as <<Value1(), Value2()>>, the graph and
\* the acoustic cost: nothing, a negative total, a large total
Weights == {<<RatOf(0), RatOf(0)>>, <<RatOf(10), RatOf(-400)>>,
            <<RatOf(3000), RatOf(5000)>>}

\* a path of a lattice, and its cost Value1() + Value2()
Paths == [words : WordSeqs, weight : Weights]
Cost(l) == DAdd(l.weight[1], l.weight[2])

\* lists of up to MaxPaths paths out of P in the order fst::ShortestPath
\* enumerates them: cost never decreases
PathLists(P) ==
    {ps \in UNION {[1 .. k -> P] : k \in 0 .. MaxPaths} :
        \A i \in 1 .. (Len(ps) - 1) : ~DLess(Cost(ps[i + 1]), Cost(ps[i]))}

\* kaldi::CompactLattice clat; of decode_stream_final: no states, no paths
EmptyLattice == [NumStates |-> 0, paths |-> <<>>]

\* lattices with paths out of P: the empty one, and NumStates() > 0 with the
\* complete paths in cost order (possibly none)
LatticesOf(P) ==
    {EmptyLattice}
        \cup {[NumStates |-> 1 + Len(ps), paths |-> ps] : ps \in PathLists(P)}

\* the lattices find_alternatives is called on directly
Lattices == LatticesOf(Paths)

\* the lattices GetLattice gives a decode call: paths out of a cheap
\* one-word path and a dear two-word path
DecodedPaths ==
    {[words |-> <<1>>, weight |-> <<RatOf(10), RatOf(-400)>>],
     [words |-> <<2, 1>>, weight |-> <<RatOf(3000), RatOf(5000)>>]}
DecodedLattices == LatticesOf(DecodedPaths)

\* ConvertLattice, fst::ShortestPath(*lat, &nbest_lat, n_best) and
\* ConvertNbestToVector: the n_best cheapest paths, cheapest first
ShortestPath(lat, nb) ==
    SubSeq(lat.paths, 1, IF nb < Len(lat.paths) THEN nb ELSE Len(lat.paths))

\* one pass of for (auto const &l : nbest_lats): GetLinearSymbolSequence, the
\* words looked up and joined into the local sentence, then
\*   Alternative alt; alt.lm_score = ...; alt.am_score = ...;
\*   alt.confidence = calculate_confidence(...); results.push_back(alt);
\* alt.transcript is never assigned: it stays the empty string
MakeAlternative(l) ==
    [transcript |-> "",
     lm_score |-> l.weight[1],
     am_score |-> l.weight[2],
     confidence |-> calculate_confidence(l.weight[1], l.weight[2], Len(l.words))]

\* the alternative of every path, computed once (@@ turns the function into
\* an explicit table, so that an application does not evaluate its body again)
AlternativeOf == [l \in Paths |-> MakeAlternative(l)] @@ <<>>

\* mutant: every alternative is pushed twice
RECURSIVE AlternativesTwice(_)
AlternativesTwice(ls) ==
    IF ls = <<>> THEN <<>>
    ELSE <<AlternativeOf[Head(ls)], AlternativeOf[Head(ls)]>>
            \o AlternativesTwice(Tail(ls))

\* the alternatives the loop pushes for the paths ls, in their order
RECURSIVE Alternatives(_)
Alternatives(ls) ==
    IF ls = <<>> THEN <<>>
    ELSE <<AlternativeOf[Head(ls)]>> \o Alternatives(Tail(ls))

\* the paths at which word_syms->Find is called on a null word_syms (the
\* Decoder was built with word_syms_filepath == "")
NullFind(ws, ls) == {i \in 1 .. Len(ls) : ~ws /\ ls[i].words # <<>>}

\* mutant: the function returns on an empty lattice before it logs
find_alternativesSilent(ws, lat, nb, res, crash) ==
    LET nbest_lats == ShortestPath(lat, nb)
    IN  [results |-> res \o Alternatives(nbest_lats),
         logged |-> IF nbest_lats = <<>> /\ lat.NumStates # 0
                    THEN {"no N-best entries"} ELSE {},
         returned |-> TRUE]

\* find_alternatives(word_syms, clat, n_best, results) noexcept, as what it
\* leaves in results, what it logs and whether it returns. Calling Find
\* through a null word_syms is undefined: the process dies there (crash), or
\* the call yields some text and the loop carries on; the text goes into the
\* local sentence only.
find_alternatives(ws, lat, nb, res, crash) ==
    LET nbest_lats == ShortestPath(lat, nb)
        bad == NullFind(ws, nbest_lats)
        stop == CHOOSE i \in bad : \A j \in bad : i <= j
    IN  [results |-> res \o Alternatives(IF crash
                                         THEN SubSeq(nbest_lats, 1, stop - 1)
                                         ELSE nbest_lats),
         logged |-> (IF lat.NumStates = 0 THEN {"Empty lattice."} ELSE {})
                        \cup (IF nbest_lats = <<>>
                              THEN {"no N-best entries"} ELSE {}),
         returned |-> ~crash]

\* the outcomes find_alternatives has on these arguments
Crashes(ws, lat, nb) ==
    IF NullFind(ws, ShortestPath(lat, nb)) = {} THEN {FALSE} ELSE BOOLEAN

\* an entry the caller's results vector holds before the call
PriorAlternative ==
    [transcript |-> "earlier", lm_score |-> RatOf(1), am_score |-> RatOf(2),
     confidence |-> RatOf(1)]

\* the results vectors a caller hands in
ResultVectors == {<<>>, <<PriorAlternative>>}

\* float scores calculate_confidence is called with directly
Scores == {RatOf(-20000), RatOf(-400), RatOf(0), RatOf(10), RatOf(3000),
           RatOf(5000), RatOf(20000), NaN, PosInf, NegInf}

\* ------------------------------------------------ whole-buffer decode call

\* std::numeric_limits<int32>::max() and ::min()
Int32Max == 2147483647
Int32Min == -Int32Max - 1

\* constexpr kaldi::BaseFloat samp_freq = 8000 of the raw entry point
RawSampFreq == 8000

\* block_align = num_channels * bits_per_sample / 8 of read_raw_wav_stream
BlockAlign == (1 * 16) \div 8

\* sample rates a wave container may carry
SampFreqs == {8000, 16000}

\* chunk_size arguments, in seconds, as <<numerator, denominator>>: negative,
\* zero, half a sample at 8 kHz, one and two samples at 8 kHz, the default of
\* one second, and a duration whose sample count exceeds int32
ChunkSizes == {<<-1, 8000>>, <<0, 1>>, <<1, 16000>>, <<1, 8000>>, <<2, 8000>>,
               <<1, 1>>, <<300000, 1>>}

\* chunk_size when the caller omits the argument:
\* const kaldi::BaseFloat & = 1 in both declarations (one second)
DefaultChunkSize == <<1, 1>>

\* buffers of one second at 8 kHz, one sample more, and two seconds and a
\* sample: what a chunk of a second or more needs to be cut at all
LongDims == {RawSampFreq, RawSampFreq + 1, 2 * RawSampFreq + 1}

\* buffer lengths, in samples, offered to a call with chunk_size cs: the
\* short ones to every call, the long ones to calls whose chunk is a second
\* or more, or not positive (a long buffer in chunks of a few samples would
\* only repeat the short cases thousands of times)
Dims(cs) ==
    (0 .. MaxDim) \cup (IF cs[1] <= 0 \/ cs[1] >= cs[2] THEN LongDims ELSE {})

\* data_bytes arguments of the raw entry point for chunk_size cs: no byte,
\* one byte, one sample, one sample and a byte, MaxDim samples with and
\* without an odd byte, and the long buffers
ByteCounts(cs) ==
    {0, 1, BlockAlign, BlockAlign + 1, BlockAlign * MaxDim, BlockAlign * MaxDim + 1}
        \cup {BlockAlign * d : d \in Dims(cs) \ (0 .. MaxDim)}

\* samp_freq * chunk_size fits int32 (chunk_size > 0; exact arithmetic, the
\* product is never formed when it does not fit)
FitsInt32(sf, cs) ==
    LET q == cs[1] \div cs[2]
        r == cs[1] % cs[2]
    IN  q <= (Int32Max - (sf * r) \div cs[2]) \div sf

\* int32(samp_freq * chunk_size) for a product that fits: truncation
TruncProduct(sf, cs) ==
    LET q == cs[1] \div cs[2]
        r == cs[1] % cs[2]
    IN  sf * q + (sf * r) \div cs[2]

\* mutant: the chunk length is always the largest int32, whatever chunk_size
ChunkLengthsWhole(sf, cs) == {Int32Max}

\* the values chunk_length can take after
\*   if (chunk_size > 0) { chunk_length = int32(samp_freq * chunk_size);
\*                         if (chunk_length == 0) chunk_length = 1; }
\*   else chunk_length = std::numeric_limits<int32>::max();
\* Converting a float outside the range of int32 is undefined: builds yield
\* the minimum (x86) or the maximum (saturating conversion).
ChunkLengths(sf, cs) ==
    IF cs[1] > 0
    THEN IF FitsInt32(sf, cs)
         THEN {IF TruncProduct(sf, cs) = 0 THEN 1 ELSE TruncProduct(sf, cs)}
         ELSE {Int32Min, Int32Max}
    ELSE {Int32Max}

\* mutant: the last chunk is not clamped to the samples that remain
NumSampNoClamp(cl, remaining) == cl

\* num_samp = chunk_length < samp_remaining ? chunk_length : samp_remaining
NumSamp(cl, remaining) == IF cl < remaining THEN cl ELSE remaining

\* the range check of kaldi::SubVector(data, origin, length)
SubVectorOk(dim, origin, length) ==
    origin >= 0 /\ length >= 0 /\ origin + length <= dim

\* positions at which the call has ended
Ended == {"done", "failed", "threw", "aborted"}

\* decode_wav_audio(wav_stream, n_best, results, chunk_size) is called
decode_wav_audio(ws, nb, r0, cs) ==
    /\ dpc = "start"
    /\ dpc' = "session"
    /\ entry' = "wav"
    /\ chunk_size' = cs
    /\ word_syms_' = ws
    /\ n_best' = nb
    /\ results0' = r0
    /\ results' = r0
    /\ UNCHANGED <<data_bytes, stream_bad, inited, Dim, samp_freq,
                   chunk_length, samp_offset, slices, finals, err>>
    /\ UNCHANGED <<bytes_read, clat, log, conf>>
    /\ UNCHANGED <<poolVars, before, missing>>

\* decode_raw_wav_audio(wav_stream, data_bytes, n_best, results, chunk_size)
\* is called
decode_raw_wav_audio(ws, nb, r0, db, cs) ==
    /\ dpc = "start"
    /\ dpc' = "session"
    /\ entry' = "raw"
    /\ chunk_size' = cs
    /\ data_bytes' = db
    /\ word_syms_' = ws
    /\ n_best' = nb
    /\ results0' = r0
    /\ results' = r0
    /\ UNCHANGED <<stream_bad, inited, Dim, samp_freq, chunk_length,
                   samp_offset, slices, finals, err>>
    /\ UNCHANGED <<bytes_read, clat, log, conf>>
    /\ UNCHANGED <<poolVars, before, missing>>

\* adaptation_state, feature_pipeline, silence_weighting, decodable_info and
\* decoder are constructed on the stack
SessionInit ==
    /\ dpc = "session"
    /\ inited' = TRUE
    /\ dpc' = "read"
    /\ UNCHANGED <<entry, chunk_size, data_bytes, stream_bad, Dim, samp_freq,
                   chunk_length, samp_offset, slices, finals, err>>
    /\ UNCHANGED <<callVars, outVars>>
    /\ UNCHANGED <<poolVars, before, missing>>

\* wave_data.Read(wav_stream); data = channel zero; samp_freq = SampFreq():
\* the container gives d samples at rate sf, or Read raises
ReadWav(d, sf, ok) ==
    /\ dpc = "read"
    /\ entry = "wav"
    /\ IF ok
       THEN /\ Dim' = d
            /\ samp_freq' = sf
            /\ dpc' = "chunk"
            /\ err' = err
       ELSE /\ dpc' = "threw"
            /\ err' = "read"
            /\ UNCHANGED <<Dim, samp_freq>>
    /\ UNCHANGED <<entry, chunk_size, data_bytes, stream_bad, inited,
                   chunk_length, samp_offset, slices, finals>>
    /\ UNCHANGED <<callVars, outVars>>
    /\ UNCHANGED <<poolVars, before, missing>>

\* std::vector<char> buffer(data_bytes): buffer.size()
BufferSize(db) == db

\* the bytes wav_stream.read(&buffer[0], data_bytes) can deliver: half of
\* them (the stream ends early), all of them
ReadCounts(db) == {db \div 2, db}

\* mutant: an empty buffer is not an error
read_raw_wav_streamNoEmptyCheck(bad, r) ==
    /\ dpc = "read"
    /\ entry = "raw"
    /\ stream_bad' = bad
    /\ bytes_read' = r
    /\ log' = log
    /\ IF bad
       THEN /\ dpc' = "threw"
            /\ err' = "read"
            /\ UNCHANGED <<Dim, samp_freq>>
       ELSE /\ Dim' = data_bytes \div BlockAlign
            /\ samp_freq' = RawSampFreq
            /\ dpc' = "chunk"
            /\ err' = err
    /\ UNCHANGED <<entry, chunk_size, data_bytes, inited, chunk_length,
                   samp_offset, slices, finals>>
    /\ UNCHANGED <<callVars, results, clat, conf>>
    /\ UNCHANGED <<poolVars, before, missing>>

\* read_raw_wav_stream(wav_stream, data_bytes, wave_matrix): the stream
\* delivers r of the data_bytes bytes into a buffer of data_bytes bytes; the
\* call raises when the stream is bad or the buffer is empty, warns when the
\* buffer is smaller than data_bytes, and resizes the matrix to data_bytes /
\* block_align columns whatever was read; samp_freq = 8000
read_raw_wav_stream(bad, r) ==
    /\ dpc = "read"
    /\ entry = "raw"
    /\ stream_bad' = bad
    /\ bytes_read' = r
    /\ IF bad \/ BufferSize(data_bytes) = 0
       THEN /\ dpc' = "threw"
            /\ err' = "read"
            /\ log' = log
            /\ UNCHANGED <<Dim, samp_freq>>
       ELSE /\ log' = log \cup (IF BufferSize(data_bytes) < data_bytes
                                THEN {"Truncated file?"} ELSE {})
            /\ Dim' = data_bytes \div BlockAlign
            /\ samp_freq' = RawSampFreq
            /\ dpc' = "chunk"
            /\ err' = err
    /\ UNCHANGED <<entry, chunk_size, data_bytes, inited, chunk_length,
                   samp_offset, slices, finals>>
    /\ UNCHANGED <<callVars, results, clat, conf>>
    /\ UNCHANGED <<poolVars, before, missing>>

\* int32 chunk_length; if (chunk_size > 0) ... else ...; int32 samp_offset = 0;
SetChunkLength ==
    /\ dpc = "chunk"
    /\ chunk_length' \in ChunkLengths(samp_freq, chunk_size)
    /\ samp_offset' = 0
    /\ dpc' = "loop"
    /\ UNCHANGED <<entry, chunk_size, data_bytes, stream_bad, inited, Dim,
                   samp_freq, slices, finals, err>>
    /\ UNCHANGED <<callVars, outVars>>
    /\ UNCHANGED <<poolVars, before, missing>>

\* one pass of while (samp_offset < data.Dim()): the SubVector wave_part is
\* cut (its range check aborts the process when it fails), _decode_wave
\* ingests it or raises, samp_offset += num_samp
LoopBody(ok) ==
    /\ dpc = "loop"
    /\ samp_offset < Dim
    /\ LET num_samp == NumSamp(chunk_length, Dim - samp_offset)
       IN  IF ~SubVectorOk(Dim, samp_offset, num_samp)
           THEN /\ dpc' = "aborted"
                /\ err' = "subvector"
                /\ UNCHANGED <<slices, samp_offset>>
           ELSE /\ slices' = Append(slices, <<samp_offset, num_samp>>)
                /\ IF ok
                   THEN /\ samp_offset' = samp_offset + num_samp
                        /\ UNCHANGED <<dpc, err>>
                   ELSE /\ dpc' = "threw"
                        /\ err' = "ingest"
                        /\ UNCHANGED samp_offset
    /\ UNCHANGED <<entry, chunk_size, data_bytes, stream_bad, inited, Dim,
                   samp_freq, chunk_length, finals>>
    /\ UNCHANGED <<callVars, outVars>>
    /\ UNCHANGED <<poolVars, before, missing>>

\* mutant: the loop is left while samples remain
LoopExitEarly ==
    /\ dpc = "loop"
    /\ dpc' = "input_finished"
    /\ finals' = finals + 1
    /\ UNCHANGED <<entry, chunk_size, data_bytes, stream_bad, inited, Dim,
                   samp_freq, chunk_length, samp_offset, slices, err>>
    /\ UNCHANGED <<callVars, outVars>>
    /\ UNCHANGED <<poolVars, before, missing>>

\* the loop condition fails: decode_stream_final(...) is called
LoopExit ==
    /\ dpc = "loop"
    /\ ~(samp_offset < Dim)
    /\ dpc' = "input_finished"
    /\ finals' = finals + 1
    /\ UNCHANGED <<entry, chunk_size, data_bytes, stream_bad, inited, Dim,
                   samp_freq, chunk_length, samp_offset, slices, err>>
    /\ UNCHANGED <<callVars, outVars>>
    /\ UNCHANGED <<poolVars, before, missing>>

\* feature_pipeline.InputFinished(), outside the try block
InputFinished(ok) ==
    /\ dpc = "input_finished"
    /\ dpc' = IF ok THEN "finalize_decoding" ELSE "threw"
    /\ err' = IF ok THEN err ELSE "input_finished"
    /\ UNCHANGED <<entry, chunk_size, data_bytes, stream_bad, inited, Dim,
                   samp_freq, chunk_length, samp_offset, slices, finals>>
    /\ UNCHANGED <<callVars, outVars>>
    /\ UNCHANGED <<poolVars, before, missing>>

\* decoder.FinalizeDecoding(), outside the try block
FinalizeDecoding(ok) ==
    /\ dpc = "finalize_decoding"
    /\ dpc' = IF ok THEN "get_lattice" ELSE "threw"
    /\ err' = IF ok THEN err ELSE "finalize_decoding"
    /\ UNCHANGED <<entry, chunk_size, data_bytes, stream_bad, inited, Dim,
                   samp_freq, chunk_length, samp_offset, slices, finals>>
    /\ UNCHANGED <<callVars, outVars>>
    /\ UNCHANGED <<poolVars, before, missing>>

\* try { decoder.GetLattice(true, &clat); ... } catch (const std::exception &)
\* { std::cout << "ERROR :: client timed out"; }: the call returns normally
GetLattice(lat, ok) ==
    /\ dpc = "get_lattice"
    /\ dpc' = IF ok THEN "find_alternatives" ELSE "failed"
    /\ err' = IF ok THEN err ELSE "get_lattice"
    /\ clat' = IF ok THEN lat ELSE clat
    /\ UNCHANGED <<entry, chunk_size, data_bytes, stream_bad, inited, Dim,
                   samp_freq, chunk_length, samp_offset, slices, finals>>
    /\ UNCHANGED <<callVars, results, bytes_read, log, conf>>
    /\ UNCHANGED <<poolVars, before, missing>>

\* mutant: the alternatives are collected in a vector of their own, which is
\* then assigned to results
ExtractAlternativesAssigned(crash) ==
    /\ dpc = "find_alternatives"
    /\ LET r == find_alternatives(word_syms_, clat, n_best, <<>>, crash)
       IN  /\ results' = r.results
           /\ log' = log \cup r.logged
           /\ dpc' = IF r.returned THEN "done" ELSE "aborted"
           /\ err' = IF r.returned THEN err ELSE "find_alternatives"
    /\ UNCHANGED <<entry, chunk_size, data_bytes, stream_bad, inited, Dim,
                   samp_freq, chunk_length, samp_offset, slices, finals>>
    /\ UNCHANGED <<callVars, bytes_read, clat, conf>>
    /\ UNCHANGED <<poolVars, before, missing>>

\* find_alternatives(word_syms_.get(), clat, n_best, results), inside the try
\* block: the function is noexcept, so nothing it raises reaches the catch,
\* and when it crashes the process ends
ExtractAlternatives(crash) ==
    /\ dpc = "find_alternatives"
    /\ LET r == find_alternatives(word_syms_, clat, n_best, results, crash)
       IN  /\ results' = r.results
           /\ log' = log \cup r.logged
           /\ dpc' = IF r.returned THEN "done" ELSE "aborted"
           /\ err' = IF r.returned THEN err ELSE "find_alternatives"
    /\ UNCHANGED <<entry, chunk_size, data_bytes, stream_bad, inited, Dim,
                   samp_freq, chunk_length, samp_offset, slices, finals>>
    /\ UNCHANGED <<callVars, bytes_read, clat, conf>>
    /\ UNCHANGED <<poolVars, before, missing>>

\* the free function find_alternatives called on its own
CallFindAlternatives(ws, lat, nb, r0, crash) ==
    /\ dpc = "start"
    /\ entry' = "extract"
    /\ word_syms_' = ws
    /\ n_best' = nb
    /\ results0' = r0
    /\ clat' = lat
    /\ LET r == find_alternatives(ws, lat, nb, r0, crash)
       IN  /\ results' = r.results
           /\ log' = log \cup r.logged
           /\ dpc' = IF r.returned THEN "done" ELSE "aborted"
           /\ err' = IF r.returned THEN err ELSE "find_alternatives"
    /\ UNCHANGED <<chunk_size, data_bytes, stream_bad, inited, Dim, samp_freq,
                   chunk_length, samp_offset, slices, finals>>
    /\ UNCHANGED <<bytes_read, conf>>
    /\ UNCHANGED <<poolVars, before, missing>>

\* the free function calculate_confidence called on its own
CallConfidence(lm_score, am_score, n_words) ==
    /\ dpc = "start"
    /\ entry' = "confidence"
    /\ dpc' = "done"
    /\ conf' = <<lm_score, am_score, n_words,
                 calculate_confidence(lm_score, am_score, n_words)>>
    /\ UNCHANGED <<chunk_size, data_bytes, stream_bad, inited, Dim, samp_freq,
                   chunk_length, samp_offset, slices, finals, err>>
    /\ UNCHANGED <<callVars, results, bytes_read, clat, log>>
    /\ UNCHANGED <<poolVars, before, missing>>

\* (each quantifier over arguments stands behind the position it is taken at)
DecodeNext ==
    \/ /\ dpc = "start"
       /\ \E ws \in BOOLEAN : \E nb \in 0 .. MaxNBest : \E r0 \in ResultVectors :
             \E cs \in ChunkSizes : \E db \in ByteCounts(cs) :
                 decode_raw_wav_audio(ws, nb, r0, db, cs)
    \/ /\ dpc = "start"
       /\ \E ws \in BOOLEAN : \E nb \in 0 .. MaxNBest : \E r0 \in ResultVectors :
             \E cs \in ChunkSizes : decode_wav_audio(ws, nb, r0, cs)
    \/ SessionInit
    \/ /\ dpc = "read"
       /\ \E bad \in BOOLEAN :
             \E r \in (IF bad THEN {0} ELSE ReadCounts(data_bytes)) :
                 read_raw_wav_stream(bad, r)
    \/ /\ dpc = "read"
       /\ \E d \in Dims(chunk_size) : \E sf \in SampFreqs : \E ok \in BOOLEAN :
             ReadWav(d, sf, ok)
    \/ SetChunkLength
    \/ \E ok \in BOOLEAN : LoopBody(ok)
    \/ LoopExit
    \/ \E ok \in BOOLEAN : InputFinished(ok)
    \/ \E ok \in BOOLEAN : FinalizeDecoding(ok)
    \/ /\ dpc = "get_lattice"
       /\ \E ok \in BOOLEAN : \E lat \in (IF ok THEN DecodedLattices ELSE {clat}) :
             GetLattice(lat, ok)
    \/ /\ dpc = "find_alternatives"
       /\ \E crash \in Crashes(word_syms_, clat, n_best) :
             ExtractAlternatives(crash)

\* the free functions of the header, each called on its own
ExtractNext ==
    \/ /\ dpc = "start"
       /\ \E lm \in Scores : \E am \in Scores : \E nw \in 0 .. MaxWords :
             CallConfidence(lm, am, nw)
    \/ /\ dpc = "start"
       /\ \E ws \in BOOLEAN : \E lat \in Lattices : \E nb \in 0 .. MaxNBest :
             \E r0 \in ResultVectors : \E crash \in Crashes(ws, lat, nb) :
                 CallFindAlternatives(ws, lat, nb, r0, crash)

\* ways a decode call ends with the process still running: it returned
\* (with or without the caught GetLattice error) or an exception left it
Left == {"done", "failed", "threw"}

\* mutant: the pipeline is kept by the Decoder and outlives the call
ReturnKeepsPipeline ==
    /\ dpc \in Left
    /\ Len(before) < MaxUtterances
    /\ before' = Append(before, dpc)
    /\ dpc' = "start"
    /\ entry' = "none"
    /\ inited' = FALSE
    /\ chunk_size' = DefaultChunkSize
    /\ data_bytes' = 0
    /\ stream_bad' = FALSE
    /\ Dim' = 0
    /\ samp_freq' = 0
    /\ chunk_length' = 0
    /\ samp_offset' = 0
    /\ finals' = 0
    /\ err' = "none"
    /\ bytes_read' = 0
    /\ clat' = EmptyLattice
    /\ UNCHANGED <<slices, callVars, results, log, conf>>
    /\ UNCHANGED <<poolVars, missing>>

\* the call is left, by return or by an exception: adaptation_state,
\* feature_pipeline, silence_weighting, decodable_info and decoder, the
\* wave data and the loop variables are locals of the entry point and are
\* destroyed with its frame, clat with the frame of decode_stream_final; the
\* Decoder's members are not written by the const entry points; results and
\* the log are the caller's
Return ==
    /\ dpc \in Left
    /\ Len(before) < MaxUtterances
    /\ before' = Append(before, dpc)
    /\ dpc' = "start"
    /\ entry' = "none"
    /\ inited' = FALSE
    /\ chunk_size' = DefaultChunkSize
    /\ data_bytes' = 0
    /\ stream_bad' = FALSE
    /\ Dim' = 0
    /\ samp_freq' = 0
    /\ chunk_length' = 0
    /\ samp_offset' = 0
    /\ slices' = <<>>
    /\ finals' = 0
    /\ err' = "none"
    /\ bytes_read' = 0
    /\ clat' = EmptyLattice
    /\ UNCHANGED <<callVars, results, log, conf>>
    /\ UNCHANGED <<poolVars, missing>>

\* arguments of the calls made one after another on one Decoder: chunks of
\* two samples or of a second, no byte or MaxDim samples of raw input
SessionChunkSizes == {<<2, 8000>>, DefaultChunkSize}
SessionByteCounts == {0, BlockAlign * MaxDim}

\* decode calls one after another on the same Decoder (word_syms_ is the
\* Decoder's and stays), each with an empty results vector
SessionsNext ==
    \/ /\ dpc = "start"
       /\ \E nb \in 1 .. MaxNBest : \E cs \in SessionChunkSizes :
             \E db \in SessionByteCounts :
                 decode_raw_wav_audio(word_syms_, nb, <<>>, db, cs)
    \/ /\ dpc = "start"
       /\ \E nb \in 1 .. MaxNBest : \E cs \in SessionChunkSizes :
             decode_wav_audio(word_syms_, nb, <<>>, cs)
    \/ SessionInit
    \/ /\ dpc = "read"
       /\ \E bad \in BOOLEAN : read_raw_wav_stream(bad, IF bad THEN 0 ELSE data_bytes)
    \/ /\ dpc = "read"
       /\ \E d \in {0, MaxDim} : \E ok \in BOOLEAN : ReadWav(d, RawSampFreq, ok)
    \/ SetChunkLength
    \/ \E ok \in BOOLEAN : LoopBody(ok)
    \/ LoopExit
    \/ \E ok \in BOOLEAN : InputFinished(ok)
    \/ \E ok \in BOOLEAN : FinalizeDecoding(ok)
    \/ /\ dpc = "get_lattice"
       /\ \E ok \in BOOLEAN : \E lat \in (IF ok THEN DecodedLattices ELSE {clat}) :
             GetLattice(lat, ok)
    \/ /\ dpc = "find_alternatives"
       /\ \E crash \in Crashes(word_syms_, clat, n_best) :
             ExtractAlternatives(crash)
    \/ Return

\* ------------------------------------------------------------ specification

Init ==
    /\ phase = "new"
    /\ n \in 1 .. MaxPool
    /\ built = 0
    /\ factory = FALSE
    /\ queue_ = <<>>
    /\ mutex_ = None
    /\ cond_ = {}
    /\ destroyed = [r \in 1 .. MaxPool |-> 0]
    /\ pc = [t \in Threads |-> "idle"]
    /\ held = [t \in Threads |-> None]
    /\ chunks = [t \in Threads |-> 0]
    /\ fullAtCall = [t \in Threads |-> FALSE]
    /\ relSince = [t \in Threads |-> FALSE]
    /\ waited = [t \in Threads |-> FALSE]
    /\ wokenBy = [t \in Threads |-> None]
    /\ dpc = "start"
    /\ entry = "none"
    /\ chunk_size = <<1, 1>>
    /\ data_bytes = 0
    /\ stream_bad = FALSE
    /\ inited = FALSE
    /\ Dim = 0
    /\ samp_freq = 0
    /\ chunk_length = 0
    /\ samp_offset = 0
    /\ slices = <<>>
    /\ finals = 0
    /\ err = "none"
    /\ word_syms_ = TRUE
    /\ n_best = 0
    /\ results0 = <<>>
    /\ results = <<>>
    /\ bytes_read = 0
    /\ clat = EmptyLattice
    /\ log = {}
    /\ conf = <<>>
    /\ before = <<>>
    /\ missing = {}

Next ==
    \/ CtorFactory
    \/ CtorProduce
    \/ CtorReturn
    \/ DtorBegin
    \/ DtorStep
    \/ DtorReturn
    \/ \E t \in Threads : acquire(t)
    \/ \E t \in Threads : PopLock(t)
    \/ \E t \in Threads : PopWait(t)
    \/ \E t \in Threads : PopTake(t)
    \/ \E t \in Threads : SpuriousWake(t)
    \/ \E t \in Threads : \E k \in 0 .. MaxChunks : DecodeBegin(t, k)
    \/ \E t \in Threads : Ingest(t)
    \/ \E t \in Threads : release(t)
    \/ \E t \in Threads : PushLock(t)
    \/ \E t \in Threads : PushPush(t)
    \/ \E t \in Threads : PushNotify(t)

Spec == Init /\ [][Next]_vars

\* the pool built from a model directory whose files may be bad: a step of
\* the constructor succeeds when the files it reads are good
StartupNext ==
    \/ \E f \in {GraphFile} \cup DecoderFiles : FileBad(f)
    \/ GraphFile \notin missing /\ CtorFactory
    \/ CtorFactoryFails
    \/ missing \cap DecoderFiles = {} /\ CtorProduce
    \/ CtorProduceFails
    \/ CtorReturn
    \/ DtorBegin
    \/ DtorStep
    \/ DtorReturn
    \/ \E t \in Threads : acquire(t)
    \/ \E t \in Threads : PopLock(t)
    \/ \E t \in Threads : PopWait(t)
    \/ \E t \in Threads : PopTake(t)
    \/ \E t \in Threads : SpuriousWake(t)
    \/ \E t \in Threads : \E k \in 0 .. MaxChunks : DecodeBegin(t, k)
    \/ \E t \in Threads : Ingest(t)
    \/ \E t \in Threads : release(t)
    \/ \E t \in Threads : PushLock(t)
    \/ \E t \in Threads : PushPush(t)
    \/ \E t \in Threads : PushNotify(t)

StartupSpec == Init /\ [][StartupNext]_vars

\* the pool with utterances that fail
ServeNext ==
    \/ Next
    \/ \E t \in Threads : DecodeRaises(t)
    \/ \E t \in Threads : ReleaseAfterRaise(t)
    \/ \E t \in Threads : DecodeAborts(t)

ServeSpec == Init /\ [][ServeNext]_vars

DecodeSpec == Init /\ [][DecodeNext]_vars

ExtractSpec == Init /\ [][ExtractNext]_vars

SessionsSpec == Init /\ [][SessionsNext]_vars

\* ------------------------------------------------------------------ fairness

\* the steps of a thread that the scheduler runs once they stay enabled: every
\* step but the call of acquire() (a handler need not serve another request)
\* and a spurious wake-up (which may never come)
Run(t) ==
    \/ PopWait(t)
    \/ PopTake(t)
    \/ \E k \in 0 .. MaxChunks : DecodeBegin(t, k)
    \/ Ingest(t)
    \/ release(t)
    \/ PushPush(t)
    \/ PushNotify(t)

\* locking mutex_: a thread that finds the mutex free again and again gets it
Lock(t) == PopLock(t) \/ PushLock(t)

Fairness ==
    /\ WF_vars(CtorFactory \/ CtorProduce \/ CtorReturn)
    /\ \A t \in Threads : WF_vars(Run(t)) /\ SF_vars(Lock(t))

FairSpec == Init /\ [][Next]_vars /\ Fairness

\* ------------------------------------------------------------------- claims

\* C1: at most n Decoders are checked out in every reachable state, and a
\* thread that called acquire() while all n were checked out has not returned
\* from it unless a release() pushed a Decoder after the call.
C1_AtMostNCheckedOut ==
    /\ CheckedOut <= n
    /\ \A t \in Threads :
          (pc[t] = "got" /\ fullAtCall[t]) => relSince[t]

\* a thread called acquire() with every Decoder checked out, was suspended,
\* and has returned after a release
C1_Witness ==
    \E t \in Threads :
        /\ pc[t] = "got"
        /\ fullAtCall[t]
        /\ waited[t]
        /\ relSince[t]
        /\ CheckedOut = n

\* C2: no Decoder is held by two threads at once, a running decode session
\* holds its Decoder, and with a pool of one Decoder at most one thread is
\* between the return of acquire() and the push of release(), so no second
\* utterance ingests before the first has released.
C2_ExclusiveUse ==
    /\ \A t \in Threads : \A u \in Threads \ {t} :
          held[t] # None => held[u] # held[t]
    /\ \A t \in Threads :
          pc[t] \in {"got", "decoding", "push_lock", "push_push"}
              => held[t] \in 1 .. n
    /\ n = 1 =>
          Cardinality({t \in Threads :
              pc[t] \in {"got", "decoding", "push_lock", "push_push"}}) <= 1

\* pool of one: one thread is decoding with a chunk left to ingest while the
\* two others are inside acquire(), one of them suspended
C2_Witness ==
    /\ n = 1
    /\ \E t \in Threads :
          /\ pc[t] = "decoding"
          /\ chunks[t] > 0
          /\ \A u \in Threads \ {t} : pc[u] \in InPop
          /\ \E u \in Threads \ {t} : pc[u] = "pop_wait"

\* C3: while the pool is in service every one of the n Decoders is either
\* once in queue_ or held by exactly one thread: queued plus checked out is
\* n, nothing is lost or duplicated, and a released Decoder is back in the
\* queue from which acquire() pops.
C3_LossFree ==
    phase = "live" =>
        /\ Len(queue_) + CheckedOut = n
        /\ \A r \in 1 .. n :
              Cardinality({i \in 1 .. Len(queue_) : queue_[i] = r})
                + Cardinality({t \in Threads : held[t] = r}) = 1
        /\ Range(queue_) \cup {held[t] : t \in Holders} = 1 .. n

\* both Decoders were acquired and released in the other order, and the one
\* released first has been acquired again
C3_Witness ==
    /\ phase = "live"
    /\ n = 2
    /\ queue_ = <<1>>
    /\ \E t \in Threads : held[t] = 2 /\ pc[t] = "got"

\* C4: every thread suspended in acquire() eventually returns from it with a
\* Decoder.
C4_NoStarvation ==
    \A t \in Threads : (pc[t] = "pop_wait") ~> (pc[t] = "got")

\* C4, amended: a thread suspended in acquire() eventually returns with a
\* Decoder provided the other threads eventually issue no further requests.
C4_ServedUnderBoundedLoad ==
    \A t \in Threads :
        (<>[](\A u \in Threads \ {t} : pc[u] = "idle"))
            => ((pc[t] = "pop_wait") ~> (pc[t] = "got"))

\* a thread that was suspended has returned from acquire() while the other
\* threads are idle
C4_Witness ==
    \E t \in Threads :
        /\ pc[t] = "got"
        /\ waited[t]
        /\ \A u \in Threads \ {t} : pc[u] = "idle"

\* the pool state "a Decoder is queued, a thread is suspended, and neither a
\* pending notify_one() nor a running acquirer is left"
LostWakeup ==
    /\ queue_ # <<>>
    /\ cond_ # {}
    /\ \A t \in Threads :
          pc[t] \notin {"push_notify", "pop_lock", "pop_woken", "pop_test"}

C6_ReleaseWakesOne ==
    [][\A t \in Threads :
          /\ (pc[t] = "push_push" /\ pc'[t] = "push_notify")
                => (queue_' = Append(queue_, held[t]) /\ held'[t] = None)
          /\ (pc[t] = "push_notify" /\ pc'[t] = "idle")
                => IF cond_ = {}
                   THEN cond_' = {} /\ \A u \in Threads \ {t} : pc'[u] = pc[u]
                   ELSE /\ cond_' \subseteq cond_
                        /\ Cardinality(cond_ \ cond_') = 1
                        /\ \A u \in cond_ \ cond_' : pc'[u] = "pop_woken"
                        /\ \A u \in Threads \ ({t} \cup (cond_ \ cond_')) :
                              pc'[u] = pc[u]
      ]_vars

\* a release has unblocked one of two suspended threads: the other one is
\* still suspended
C6_Witness ==
    \E t \in Threads : \E u \in Threads \ {t} :
        /\ pc[t] = "idle"
        /\ pc[u] = "pop_woken"
        /\ wokenBy[u] = t
        /\ cond_ = Threads \ {t, u}
        /\ cond_ # {}

\* C7: when the constructor returns, queue_ holds exactly n distinct Decoders
\* and none is checked out; before that no thread is inside acquire() or
\* holds a Decoder.
C7_InitBuildsN ==
    /\ [][(phase = "ctor" /\ phase' = "live") =>
              /\ Len(queue_') = n
              /\ Cardinality(Range(queue_')) = n
              /\ factory'
              /\ Holders = {}
         ]_vars
    /\ [](phase \in {"new", "ctor"} =>
              \A t \in Threads : pc[t] = "idle" /\ held[t] = None)

\* the constructor has returned with the largest pool and no thread has
\* called acquire() yet
C7_Witness ==
    /\ phase = "live"
    /\ n = MaxPool
    /\ Len(queue_) = n
    /\ \A t \in Threads : pc[t] = "idle" /\ ~waited[t]

\* C8: once the destructor has run in a state where no Decoder was checked
\* out, every one of the n Decoders has been deleted exactly once and queue_
\* is empty.
C8_TeardownDestroysAll ==
    (phase = "destroyed" /\ Holders = {}) =>
        /\ queue_ = <<>>
        /\ \A r \in 1 .. n : destroyed[r] = 1
        /\ \A r \in 1 .. MaxPool : r > n => destroyed[r] = 0

\* the pool of the largest size was torn down with nothing checked out
C8_Witness ==
    /\ phase = "destroyed"
    /\ Holders = {}
    /\ n = MaxPool
    /\ \A r \in 1 .. n : destroyed[r] = 1

\* C9, as claimed: every run of a whole-buffer entry point has constructed
\* the session, has performed decode_stream_final exactly once and has ended
\* in DONE or FAILED.
C9_StateMachine ==
    dpc \in Ended => (inited /\ finals = 1 /\ dpc \in {"done", "failed"})

\* C9, amended: the session is constructed before anything else; ingest steps
\* come only before decode_stream_final, which is entered at most once and
\* only when no sample is left; a run whose read and ingest steps all succeed
\* enters it exactly once and ends DONE, or FAILED when GetLattice raises; a
\* run whose read or ingest raises ends without it; an error of InputFinished
\* or FinalizeDecoding leaves the call, one of find_alternatives ends the
\* process.
C9_SessionOrder ==
    /\ [](/\ dpc \notin {"start", "session"} => inited
          /\ slices # <<>> => inited
          /\ finals <= 1
          /\ finals = 1 =>
                (samp_offset >= Dim /\ err \notin {"read", "ingest", "subvector"})
          /\ dpc \in {"input_finished", "finalize_decoding", "get_lattice",
                      "find_alternatives", "done", "failed"} => finals = 1
          /\ dpc \in {"read", "chunk", "loop"} => finals = 0
          /\ dpc = "done" => err = "none"
          /\ dpc = "failed" => err = "get_lattice"
          /\ dpc = "threw" =>
                /\ err \in {"read", "ingest", "input_finished", "finalize_decoding"}
                /\ finals = (IF err \in {"read", "ingest"} THEN 0 ELSE 1)
          /\ dpc = "aborted" =>
                /\ err \in {"subvector", "find_alternatives"}
                /\ finals = (IF err = "subvector" THEN 0 ELSE 1))
    /\ [][finals = 1 => (slices' = slices /\ finals' = 1)]_vars

\* a run that ingested two chunks or more and ended DONE
C9_Witness ==
    /\ dpc = "done"
    /\ finals = 1
    /\ Len(slices) >= 2
    /\ inited

\* slices sl, in order, are contiguous from sample 0, none is empty or longer
\* than L, and every slice but the last has exactly L samples
ContiguousChunks(sl, L) ==
    \A i \in 1 .. Len(sl) :
        /\ sl[i][1] = (IF i = 1 THEN 0 ELSE sl[i - 1][1] + sl[i - 1][2])
        /\ sl[i][2] >= 1
        /\ sl[i][2] <= L
        /\ i < Len(sl) => sl[i][2] = L

\* slices sl cover samples 0 .. D - 1
CoversBuffer(sl, D) ==
    IF sl = <<>> THEN D = 0 ELSE sl[Len(sl)][1] + sl[Len(sl)][2] = D

\* max(1, floor(sample_rate * chunk_duration)); a product beyond int32 is
\* capped there (every length of at least D cuts the buffer the same way)
ClaimedChunkLength ==
    IF chunk_size[1] <= 0 THEN 1
    ELSE IF ~FitsInt32(samp_freq, chunk_size) THEN Int32Max
    ELSE IF TruncProduct(samp_freq, chunk_size) < 1 THEN 1
    ELSE TruncProduct(samp_freq, chunk_size)

\* C10, as claimed: when the chunking loop has finished, the ingested slices
\* partition the buffer into chunks of L = max(1, floor(sample_rate *
\* chunk_duration)) samples, the last one of 1 to L samples.
C10_FixedDurationChunks ==
    finals = 1 =>
        /\ ContiguousChunks(slices, ClaimedChunkLength)
        /\ CoversBuffer(slices, Dim)

\* the chunk length of the amended claim: max(1, trunc(sample_rate *
\* chunk_duration)) for a positive duration whose product fits int32, and
\* the largest int32 for a duration of zero or less
AmendedChunkLength ==
    IF chunk_size[1] <= 0 THEN Int32Max
    ELSE IF TruncProduct(samp_freq, chunk_size) < 1 THEN 1
    ELSE TruncProduct(samp_freq, chunk_size)

\* C10, amended: for a chunk duration of zero or less, or a positive one
\* whose sample count fits int32, the slices ingested so far are contiguous,
\* non-empty, in sample order, within the buffer and of the amended chunk
\* length L (the last one of 1 to L samples), no slice fails the range
\* check, and once the loop has finished they cover the buffer exactly; a
\* duration of zero or less gives L = INT32_MAX, one slice for the whole
\* buffer.
C10_ChunksPartitionBuffer ==
    (samp_freq > 0 /\ dpc \notin {"start", "session", "read", "chunk"}
        /\ (chunk_size[1] <= 0 \/ FitsInt32(samp_freq, chunk_size))) =>
        /\ chunk_length = AmendedChunkLength
        /\ err # "subvector"
        /\ \A i \in 1 .. Len(slices) :
              /\ slices[i][1] = (IF i = 1 THEN 0
                                 ELSE slices[i - 1][1] + slices[i - 1][2])
              /\ slices[i][2] >= 1
              /\ slices[i][2] <= AmendedChunkLength
              /\ slices[i][1] + slices[i][2] <= Dim
              /\ slices[i][1] + slices[i][2] < Dim =>
                    slices[i][2] = AmendedChunkLength
        /\ finals = 1 =>
              /\ ContiguousChunks(slices, AmendedChunkLength)
              /\ CoversBuffer(slices, Dim)

\* a buffer cut into three chunks, the last one shorter than the others
C10_Witness ==
    /\ finals = 1
    /\ Len(slices) = 3
    /\ slices[1][2] = slices[2][2]
    /\ slices[3][2] < slices[1][2]
    /\ slices[3][1] + slices[3][2] = Dim

\* C11, as claimed: a call that leaves chunk_size to its default ingests a
\* non-empty buffer as one chunk spanning the whole buffer: when the loop has
\* finished there is exactly one slice, of Dim samples.
C11_DefaultIsWholeBuffer ==
    (chunk_size = DefaultChunkSize /\ finals = 1 /\ Dim > 0) =>
        slices = <<<<0, Dim>>>>

\* the number of chunks of L samples a buffer of D samples makes
ChunkCount(D, L) == (D + L - 1) \div L

\* C11, amended: the default chunk_size is one second, so a call that omits
\* it cuts the buffer into chunks of samp_freq samples: ceil(Dim / samp_freq)
\* ingest steps precede decode_stream_final, one step exactly when the buffer
\* is not longer than a second; a chunk_size of zero or less gives the one
\* chunk spanning the whole buffer whatever Dim and samp_freq are.
C11_DefaultIsOneSecond ==
    (finals = 1 /\ Dim > 0) =>
        /\ chunk_size = DefaultChunkSize =>
              /\ chunk_length = samp_freq
              /\ Len(slices) = ChunkCount(Dim, samp_freq)
              /\ \A i \in 1 .. Len(slices) :
                    /\ slices[i][1] = (i - 1) * samp_freq
                    /\ slices[i][2] =
                          (IF i * samp_freq <= Dim THEN samp_freq
                           ELSE Dim - (i - 1) * samp_freq)
              /\ (Len(slices) = 1) <=> (Dim <= samp_freq)
        /\ chunk_size[1] <= 0 => slices = <<<<0, Dim>>>>

\* a call with the default chunk_size on a buffer of two seconds and a
\* sample at 8 kHz has ingested three chunks
C11_Witness ==
    /\ chunk_size = DefaultChunkSize
    /\ finals = 1
    /\ Dim = 2 * RawSampFreq + 1
    /\ slices = <<<<0, RawSampFreq>>, <<RawSampFreq, RawSampFreq>>,
                  <<2 * RawSampFreq, 1>>>>

\* the steps of decode_stream_final at which a session can fail
FinalizeSteps ==
    {"input_finished", "finalize_decoding", "get_lattice", "find_alternatives"}

\* C13: a failure while a session finalizes (signalling the end of the input,
\* finalizing the search, retrieving the lattice or extracting hypotheses
\* from it) is caught inside the decode call: the call has returned normally
\* (no exception left it and the process did not abort) and no alternative
\* was added for the utterance.
C13_FinalizeFailureCaught ==
    err \in FinalizeSteps => (dpc = "failed" /\ results = results0)

RECURSIVE SamplesIn(_)
SamplesIn(sl) == IF sl = <<>> THEN 0 ELSE Head(sl)[2] + SamplesIn(Tail(sl))

\* C15: when the raw entry point is told data_bytes bytes and the stream
\* delivers fewer, a warning is logged and the session ingests exactly the
\* samples that were read, floor(bytes_read / 2) of them, by the time it
\* finalizes.
C15_TruncatedInputIngestsWhatWasRead ==
    (entry = "raw" /\ finals = 1 /\ bytes_read < data_bytes) =>
        /\ "Truncated file?" \in log
        /\ SamplesIn(slices) = bytes_read \div BlockAlign

\* the alternatives the call has added to the caller's vector so far
Added == SubSeq(results, Len(results0) + 1, Len(results))

\* the path cost an alternative carries
AltCost(a) == DAdd(a.lm_score, a.am_score)

\* C16, as claimed: the vector a decode call hands back to its caller has at
\* most n_best entries, in an order in which the path cost never decreases.
C16_ResultAtMostNBest ==
    (entry \in {"raw", "wav"} /\ dpc = "done") =>
        /\ Len(results) <= n_best
        /\ \A i \in 1 .. (Len(results) - 1) :
              ~DLess(AltCost(results[i + 1]), AltCost(results[i]))

\* C16, amended: whatever the call and its n_best, the alternatives a decode
\* call adds to the caller's vector are at most n_best, they follow what the
\* vector held at the call, they stand in the order
\* in which the search engine enumerated the paths they come from, and their
\* path cost never decreases from one entry to the next; a caller that hands
\* in an empty vector gets back a vector of at most n_best entries.
C16_AtMostNBestInCostOrder ==
    entry \in {"raw", "wav"} =>
        /\ Len(results) >= Len(results0)
        /\ SubSeq(results, 1, Len(results0)) = results0
        /\ Len(Added) <= n_best
        /\ Len(Added) <= Len(clat.paths)
        /\ \A i \in 1 .. Len(Added) : DEq(AltCost(Added[i]), Cost(clat.paths[i]))
        /\ \A i \in 1 .. (Len(Added) - 1) :
              ~DLess(AltCost(Added[i + 1]), AltCost(Added[i]))
        /\ results0 = <<>> => Len(results) <= n_best

\* a call with n_best = 2 has returned two alternatives, the dearer one last
C16_Witness ==
    /\ entry \in {"raw", "wav"}
    /\ dpc = "done"
    /\ n_best = 2
    /\ results0 = <<>>
    /\ Len(results) = 2
    /\ DLess(AltCost(results[1]), AltCost(results[2]))

\* the texts of the word ids w, in order, joined by single spaces
RECURSIVE JoinedWords(_)
JoinedWords(w) ==
    IF w = <<>> THEN ""
    ELSE IF Len(w) = 1 THEN Find(w[1])
    ELSE Find(w[1]) \o " " \o JoinedWords(Tail(w))

\* C17: with a symbol table at hand, every alternative find_alternatives
\* adds carries its lattice path: the transcript is the texts of the path's
\* word ids joined by single spaces, lm_score and am_score are the two
\* components of the path's weight.
C17_AlternativeCarriesItsPath ==
    (entry = "extract" /\ word_syms_) =>
        \A i \in 1 .. Len(Added) :
            /\ Added[i].transcript = JoinedWords(clat.paths[i].words)
            /\ Added[i].lm_score = clat.paths[i].weight[1]
            /\ Added[i].am_score = clat.paths[i].weight[2]

\* clamp(x, lo, hi) of the claimed formula
Clamp(x, lo, hi) == IF DLess(x, lo) THEN lo ELSE IF DLess(hi, x) THEN hi ELSE x

\* clamp(-0.0001466488 * (2.388449 * lm + am) / (wc + 1) + 0.956, 0, 1)
ClaimedConfidence(lm, am, wc) ==
    Clamp(DAdd(DDivInt(DMul(Decimal(-146648800, 3),
                            DAdd(DMul(Decimal(238844900, 2), lm), am)),
                       wc + 1),
               Decimal(9560, 1)),
          RatOf(0), RatOf(1))

\* x is a number from 0 to 1
InUnitInterval(x) == x # NaN /\ ~DLess(x, RatOf(0)) /\ ~DLess(RatOf(1), x)

\* C18: calculate_confidence returns a number from 0 to 1 for every lm_score,
\* am_score (not-a-number and the infinities included) and word count, equal
\* to the clamped formula wherever the formula has a value; the confidence of
\* every alternative find_alternatives adds is that value for the
\* alternative's own lm_score and am_score and the word count of its path.
C18_ConfidenceIsClampedFormula ==
    /\ entry = "confidence" =>
          /\ InUnitInterval(conf[4])
          /\ ClaimedConfidence(conf[1], conf[2], conf[3]) # NaN =>
                DEq(conf[4], ClaimedConfidence(conf[1], conf[2], conf[3]))
    /\ entry = "extract" =>
          \A i \in 1 .. Len(Added) :
              /\ InUnitInterval(Added[i].confidence)
              /\ DEq(Added[i].confidence,
                     ClaimedConfidence(Added[i].lm_score, Added[i].am_score,
                                       Len(clat.paths[i].words)))

\* calculate_confidence has returned a value strictly between 0 and 1 for a
\* path of two words
C18_Witness ==
    /\ entry = "confidence"
    /\ conf[3] = 2
    /\ DLess(RatOf(0), conf[4])
    /\ DLess(conf[4], RatOf(1))

\* C19: find_alternatives on a lattice without states, whatever n_best, the
\* symbol table and the vector handed in, has logged the empty lattice, has
\* left the vector as it was and has returned normally.
C19_EmptyLatticeAddsNothing ==
    (entry = "extract" /\ clat.NumStates = 0) =>
        /\ "Empty lattice." \in log
        /\ results = results0
        /\ dpc = "done"
        /\ err = "none"

\* find_alternatives has returned from a lattice without states, called with
\* n_best = 2 and a vector that held an entry
C19_Witness ==
    /\ entry = "extract"
    /\ clat.NumStates = 0
    /\ n_best = 2
    /\ results = <<PriorAlternative>>
    /\ dpc = "done"

\* C20: a decode call that fails, in framing, ingest or finalize, is
\* isolated: the step in which the call of a thread fails leaves the queue
\* of available Decoders, the DecoderQueue itself and every other thread's
\* position, Decoder and running utterance as they were, and the failing
\* thread still holds its Decoder, so that all n Decoders remain and the
\* one of the failed utterance can be released and acquired again.
C20_FailureIsIsolated ==
    [][\A t \in Threads :
          (pc[t] = "decoding" /\ pc'[t] \in {"raised", "dead"}) =>
              /\ queue_' = queue_
              /\ phase' = "live"
              /\ destroyed' = destroyed
              /\ held' = held
              /\ Cardinality(Range(queue_')) + Cardinality(Holders') = n
              /\ \A u \in Threads \ {t} :
                    pc'[u] = pc[u] /\ chunks'[u] = chunks[u]]_vars

\* the session of a call about to build or read: nothing ingested, nothing
\* finalized, no error, no lattice, the loop variables unset
FreshSession ==
    /\ slices = <<>>
    /\ finals = 0
    /\ samp_offset = 0
    /\ chunk_length = 0
    /\ Dim = 0
    /\ err = "none"
    /\ clat = EmptyLattice
    /\ bytes_read = 0

\* C21: whatever decode calls ended on the Decoder before, and however they
\* ended, no session exists between two calls, every call starts by building
\* its session, and the session it has built is the fresh one; the step that
\* leaves a call, by return or by an exception, discards the session.
C21_SessionIsFresh ==
    /\ [](/\ dpc = "start" => (~inited /\ FreshSession)
          /\ dpc = "session" => (~inited /\ FreshSession)
          /\ dpc = "read" => (inited /\ FreshSession))
    /\ [][(dpc \in Left /\ dpc' = "start") =>
              (~inited' /\ slices' = <<>> /\ finals' = 0
                  /\ clat' = EmptyLattice)]_vars

\* a call has built its session on a Decoder on which a call that raised
\* and then a call that returned ended before
C21_Witness ==
    /\ before = <<"threw", "done">>
    /\ dpc = "read"
    /\ inited

\* C22: a file of the model directory that is missing or malformed when
\* construction reads it ends the process: the factory is not built on a bad
\* graph, no Decoder is built or left out on a bad model, symbol table or
\* feature configuration, the constructor does not return; after the abort
\* no thread ever gets a Decoder, and a pool in service has all n Decoders.
C22_ConstructionErrorsAreFatal ==
    /\ [](/\ phase = "aborted" =>
                \A t \in Threads : pc[t] = "idle" /\ held[t] = None
          /\ Holders # {} => (built = n /\ phase \in {"live", "dtor", "destroyed"})
          /\ phase = "live" =>
                (built = n /\ Cardinality(Range(queue_)) + CheckedOut = n))
    /\ [][(phase = "new" /\ GraphFile \in missing) =>
              (phase' \in {"new", "aborted"} /\ factory' = factory)]_vars
    /\ [][(phase = "ctor" /\ built < n /\ missing \cap DecoderFiles # {}) =>
              (phase' \in {"ctor", "aborted"} /\ built' = built
                  /\ queue_' = queue_)]_vars
    /\ [][phase = "aborted" => phase' = "aborted"]_vars

\* construction of a pool of two ended the process at the second Decoder,
\* whose symbol table could not be read
C22_Witness ==
    /\ phase = "aborted"
    /\ n = 2
    /\ built = 1
    /\ missing = {"words.txt"}

\* C23: for every buffer, sample rate and chunk_size, a sample count beyond
\* int32 included, once the input is read and the chunk length is set, the
\* chunk length the loop uses is at least 1, every
\* ingest starts where the one before ended and takes at least one sample,
\* the offset never passes the end of the buffer, no pass of the loop fails
\* its range check, and there are at most Dim ingest steps.
C23_ChunkLoopAdvances ==
    (/\ entry \in {"raw", "wav"}
     /\ dpc \notin {"start", "session", "read", "chunk"}
     /\ err # "read") =>
        /\ chunk_length >= 1
        /\ samp_offset <= Dim
        /\ err # "subvector"
        /\ Len(slices) <= Dim
        /\ \A i \in 1 .. Len(slices) :
              /\ slices[i][2] >= 1
              /\ slices[i][1] = (IF i = 1 THEN 0
                                 ELSE slices[i - 1][1] + slices[i - 1][2])

\* C24: a decode call only appends to the vector it is handed: at every
\* point of the call the entries the vector held at the call are in place and
\* unchanged, what the call has added follows them, and a call that has
\* raised, has caught the GetLattice error, has failed its range check or has
\* found no n-best entry has left the vector as it was; so the vector is
\* empty only if it was empty at the call.
C24_ResultsOnlyAppended ==
    entry \in {"raw", "wav"} =>
        /\ Len(results) >= Len(results0)
        /\ SubSeq(results, 1, Len(results0)) = results0
        /\ dpc \in {"threw", "failed"} => results = results0
        /\ (dpc = "aborted" /\ err = "subvector") => results = results0
        /\ (dpc = "done" /\ ShortestPath(clat, n_best) = <<>>) =>
              (results = results0 /\ "no N-best entries" \in log)
        /\ dpc = "done" =>
              Added = Alternatives(ShortestPath(clat, n_best))
        /\ results = <<>> => results0 = <<>>

\* a call handed a vector with one entry has returned with two alternatives
\* behind that entry
C24_Witness ==
    /\ entry \in {"raw", "wav"}
    /\ dpc = "done"
    /\ results0 = <<PriorAlternative>>
    /\ Len(results) = 3
    /\ results[1] = PriorAlternative

====
